---- MODULE Spec2Model ----
(***************************************************************************)
(* Model of the Transaction middleware of go-http-middleware               *)
(* (transaction.go, middleware.go).                                        *)
(*                                                                         *)
(* Every request served by Transaction(db)(next) owns a statusWriter (sw), *)
(* a transaction handle (tx) and a request context (ctx).  The wrapped     *)
(* handler is an arbitrary sequence of calls on the statusWriter followed  *)
(* by a normal return or a panic with a non-nil value.  The database and   *)
(* the underlying http.ResponseWriter are collaborators: every call the    *)
(* middleware makes on them is appended, in program order, to calls[r].    *)
(***************************************************************************)
EXTENDS Integers, Sequences, FiniteSets, TLC

\* ---------------------------------------------------------------- bounds
\* Largest number of calls a handler makes before it returns or panics.
MaxCalls == 3
\* Handler call budget when two requests are served concurrently.
ConcCalls == 1

\* ------------------------------------------------------------ input sets
Reqs == {"r1", "r2"}

StatusInternalServerError == 500
StatusOK == 200

\* Status codes a handler passes to WriteHeader.
Statuses == {199, 200, 299, 300, 404, 500, 503}
\* Byte slices a handler passes to Write.
Chunks == {<< >>, <<1>>, <<2, 3>>}
HeaderKeys == {"Content-Type"}
HeaderVals == {"text/plain", "application/json"}

NoTx == 0

\* ------------------------------------------------------------ middleware.go
\* Variant of isHTTPStatusOk with an inclusive upper bound.
isHTTPStatusOkUpTo300(status) == status >= 200 /\ status <= 300

\* Variant of isHTTPStatusOk with an exclusive lower bound.
isHTTPStatusOkAbove200(status) == status > 200 /\ status < 300

\* isHTTPStatusOk checks if the given http status is in the 2xx range
isHTTPStatusOk(status) == status >= 200 /\ status < 300

\* --------------------------------------------------------- context and key
\* txKey is a pointer to a contextKey value: the address is its identity.
txKey == [addr |-> 1, name |-> "Tx"]
\* A different pointer whose contextKey has the same name.
otherKey == [addr |-> 2, name |-> "Tx"]

\* The string "Tx" itself used as a key: a value of another type, with no
\* address.
stringTxKey == [addr |-> 0, name |-> "Tx"]

\* context.Background(): a context with no values.
emptyCtx == [k \in {} |-> NoTx]

\* Contexts that do not come from Transaction: the empty one, and ones that
\* carry a *sql.Tx under another pointer or under the string "Tx".
ForeignCtxs ==
    {emptyCtx, [k \in {otherKey} |-> 1], [k \in {stringTxKey} |-> 1]}

\* ctx.Value(key): nil (NoTx) when the key is absent.
ctxValue(c, key) == IF key \in DOMAIN c THEN c[key] ELSE NoTx

\* Variant of setTransaction that stores the transaction under another
\* pointer whose contextKey has the same name.
setTransactionOtherKey(c, t) ==
    [k \in DOMAIN c \cup {otherKey} |-> IF k = otherKey THEN t ELSE c[k]]

\* context.WithValue(ctx, txKey, tx)
setTransaction(c, t) ==
    [k \in DOMAIN c \cup {txKey} |-> IF k = txKey THEN t ELSE c[k]]

\* Variant of GetTransaction whose lookup compares the names of the keys.
GetTransactionByName(c) ==
    IF \E k \in DOMAIN c : k.name = txKey.name
        THEN [panic |-> FALSE,
              tx |-> c[CHOOSE k \in DOMAIN c : k.name = txKey.name]]
        ELSE [panic |-> TRUE, tx |-> NoTx]

\* ctx.Value(txKey).(*sql.Tx): the type assertion panics on a nil interface.
GetTransaction(c) ==
    IF txKey \in DOMAIN c
        THEN [panic |-> FALSE, tx |-> c[txKey]]
        ELSE [panic |-> TRUE, tx |-> NoTx]

\* ------------------------------------------------------------ statusWriter
\* &statusWriter{rw: w, buf: bytes.NewBuffer(nil)}
newStatusWriter == [status |-> 0, buf |-> << >>]

\* Variant of WriteHeader in which the first recorded status wins.
WriteHeaderFirstWins(w, status) ==
    [w EXCEPT !.status = IF w.status = 0 THEN status ELSE w.status]

WriteHeader(w, status) == [w EXCEPT !.status = status]

\* Variant of Write that leaves an unset status unset.
WriteNoImplicitStatus(w, b) == [w EXCEPT !.buf = w.buf \o b]

\* Variant of Write that records 200 on every call.
WriteAlwaysOK(w, b) == [status |-> StatusOK, buf |-> w.buf \o b]

Write(w, b) ==
    [status |-> IF w.status = 0 THEN StatusOK ELSE w.status,
     buf    |-> w.buf \o b]

\* One call the middleware makes on a collaborator.
Call(op, code, bytes, t, err) ==
    [op |-> op, code |-> code, bytes |-> bytes, tx |-> t, err |-> err]

rwWriteHeader(code) == Call("rw.WriteHeader", code, << >>, NoTx, FALSE)
rwWrite(bytes) == Call("rw.Write", 0, bytes, NoTx, FALSE)

\* Variant of Finish that writes the status even when it is unset.
FinishAlwaysHeader(w) == <<rwWriteHeader(w.status), rwWrite(w.buf)>>

\* Finish: the calls it makes on the underlying writer, in order.
Finish(w) ==
    (IF w.status # 0 THEN <<rwWriteHeader(w.status)>> ELSE << >>)
        \o <<rwWrite(w.buf)>>

\* ------------------------------------------- Auth, HTTPS, JWT: vocabulary
StatusUnauthorized == 401
StatusPermanentRedirect == 308

\* Strings that get concatenated are sequences of characters.
httpsScheme == <<"h", "t", "t", "p", "s", ":", "/", "/">>

\* Request inputs: the Authorization header ("" when absent), the
\* x-forwarded-proto header ("" when absent), r.Host and r.URL.Path.
AuthHeaders == {"", "magic_password", "would_I_lie_to_you"}
Protos == {"", "http", "https", "HTTP"}
Hosts == {<<"e", ".", "c">>, <<"a">>}
Paths == {<< >>, <<"/">>, <<"/", "t">>}

\* userContextKey of the tests: a pointer to a contextKey named "user".
userContextKey == [addr |-> 3, name |-> "user"]

\* context.WithValue(ctx, userContextKey, user)
withUser(c) ==
    [k \in DOMAIN c \cup {userContextKey} |->
        IF k = userContextKey THEN 1 ELSE c[k]]

Request(authorization, proto, host, path, c) ==
    [authorization |-> authorization, proto |-> proto, host |-> host,
     path |-> path, ctx |-> c]

\* One call a middleware makes: on the writer, on next, on the auth
\* function, on the jwt library or on the user supplied JWTFunc.
MCall(op, code, str, req) == [op |-> op, code |-> code, str |-> str, req |-> req]

NoReq == Request("", "", << >>, << >>, emptyCtx)
wWriteHeader(code) == MCall("w.WriteHeader", code, << >>, NoReq)
wSetLocation(url) == MCall("w.Header.Set.Location", 0, url, NoReq)
nextServeHTTP(req) == MCall("next.ServeHTTP", 0, << >>, req)
callAuthFunc(req) == MCall("authFunc", 0, << >>, req)
callJwtParse(req) == MCall("jwt.Parse", 0, << >>, req)
callUserSuppliedFunc(req) == MCall("userSuppliedFunc", 0, << >>, req)

\* What an auth function did and returned: the calls it made, whether it
\* accepted, and the context it returned.
AuthResult(ok, c, made) == [ok |-> ok, ctx |-> c, calls |-> made]

\* No request is being served by Auth, HTTPS or JWT.
NoRequest ==
    [pc |-> "Unused", kind |-> "", req |-> NoReq,
     res |-> AuthResult(FALSE, emptyCtx, << >>),
     parse |-> [err |-> TRUE, valid |-> FALSE, mapClaims |-> TRUE],
     userFunc |-> [nil |-> TRUE, err |-> FALSE, ctx |-> emptyCtx],
     out |-> << >>, got |-> [panic |-> FALSE, tx |-> NoTx]]

\* ------------------------------------------------------------------ Auth
\* Variant of Auth that hands next the request with its original context.
AuthKeepsRequestContext(req, res) ==
    IF req.authorization = ""
        THEN <<wWriteHeader(StatusUnauthorized)>>
        ELSE <<callAuthFunc(req)>> \o res.calls \o
             (IF ~res.ok
                 THEN <<wWriteHeader(StatusUnauthorized)>>
                 ELSE <<nextServeHTTP(req)>>)

\* Auth: the calls the handler it returns makes for request req, when the
\* auth function (if called) behaves as res.
Auth(req, res) ==
    IF req.authorization = ""
        THEN <<wWriteHeader(StatusUnauthorized)>>
        ELSE <<callAuthFunc(req)>> \o res.calls \o
             (IF ~res.ok
                 THEN <<wWriteHeader(StatusUnauthorized)>>
                 ELSE <<nextServeHTTP([req EXCEPT !.ctx = res.ctx])>>)

\* ----------------------------------------------------------------- HTTPS
\* http.Redirect(w, r, url, code): sets Location and writes the status.
Redirect(url, code) == <<wSetLocation(url), wWriteHeader(code)>>

\* Variant of HTTPS that redirects to the host without the path.
HTTPSDropsPath(req) ==
    IF req.proto = "http"
        THEN Redirect(httpsScheme \o req.host, StatusPermanentRedirect)
        ELSE <<nextServeHTTP(req)>>

HTTPS(req) ==
    IF req.proto = "http"
        THEN Redirect(httpsScheme \o req.host \o req.path,
                      StatusPermanentRedirect)
        ELSE <<nextServeHTTP(req)>>

\* ------------------------------------------------------------------- JWT
\* What jwt.Parse can return: an error with an invalid token, or no error
\* with a valid token; the claims of a parsed token are MapClaims.
ParseResults ==
    {[err |-> TRUE, valid |-> FALSE, mapClaims |-> TRUE],
     [err |-> FALSE, valid |-> TRUE, mapClaims |-> TRUE]}

\* options.authFunc: nil, or a JWTFunc that returns (ctx, err).
UserFuncs(c) ==
    {[nil |-> TRUE, err |-> FALSE, ctx |-> c]}
        \cup [nil : {FALSE}, err : BOOLEAN, ctx : {c, withUser(c)}]

\* Variant of authenticate that drops the error of the user supplied func.
authenticateIgnoresUserErr(req, parse, userFunc) ==
    IF parse.err
        THEN AuthResult(FALSE, req.ctx, <<callJwtParse(req)>>)
    ELSE IF parse.mapClaims /\ parse.valid
        THEN IF ~userFunc.nil
                THEN AuthResult(TRUE, userFunc.ctx,
                                <<callJwtParse(req), callUserSuppliedFunc(req)>>)
                ELSE AuthResult(TRUE, req.ctx, <<callJwtParse(req)>>)
    ELSE AuthResult(~parse.err, req.ctx, <<callJwtParse(req)>>)

\* jwtAuth.authenticate(ctx, tokenString): the auth function JWT passes to
\* Auth.  It returns (ctx, err); Auth accepts when err is nil.
authenticate(req, parse, userFunc) ==
    IF parse.err
        THEN AuthResult(FALSE, req.ctx, <<callJwtParse(req)>>)
    ELSE IF parse.mapClaims /\ parse.valid
        THEN IF ~userFunc.nil
                THEN AuthResult(~userFunc.err, userFunc.ctx,
                                <<callJwtParse(req), callUserSuppliedFunc(req)>>)
                ELSE AuthResult(TRUE, req.ctx, <<callJwtParse(req)>>)
    ELSE AuthResult(~parse.err, req.ctx, <<callJwtParse(req)>>)

\* JWT(options)(next) == Auth(authenticater.authenticate)(next)
JWT(req, parse, userFunc) == Auth(req, authenticate(req, parse, userFunc))

\* ------------------------------------------------------------------- state
VARIABLES
    pc,       \* position of each request inside Transaction's handler
    sw,       \* the request's statusWriter
    hdr,      \* the underlying writer's header container
    tx,       \* the *sql.Tx BeginTx returned (NoTx: none)
    ctx,      \* the context of the request handed to next
    got,      \* what the handler's last GetTransaction call returned
    panicking,\* the goroutine is unwinding with a panic
    hist,     \* what the handler has done so far: its calls, then how it
              \* ended ("return" or "panic")
    calls,    \* the calls made on db, tx, next and the underlying writer
    nextTx,   \* db: the handle the next successful BeginTx returns
    limit,    \* handler call budget of this run
    mw        \* a request served by Auth, HTTPS or JWT in front of next

vars == <<pc, sw, hdr, tx, ctx, got, panicking, hist, calls, nextTx, limit,
          mw>>

NoHeaders == [k \in HeaderKeys |-> ""]

InitWith(admitted, budget) ==
    /\ pc = [r \in Reqs |-> IF r \in admitted THEN "Idle" ELSE "Unused"]
    /\ sw = [r \in Reqs |-> newStatusWriter]
    /\ hdr = [r \in Reqs |-> NoHeaders]
    /\ tx = [r \in Reqs |-> NoTx]
    /\ ctx = [r \in Reqs |-> emptyCtx]
    /\ got = [r \in Reqs |-> NoTx]
    /\ panicking = [r \in Reqs |-> FALSE]
    /\ hist = [r \in Reqs |-> << >>]
    /\ calls = [r \in Reqs |-> << >>]
    /\ nextTx = 1
    /\ limit = budget

\* One request served by the middleware.
Init == InitWith({"r1"}, MaxCalls) /\ mw = NoRequest
\* Two requests served concurrently by the same middleware value.
InitConc == InitWith(Reqs, ConcCalls) /\ mw = NoRequest

\* ------------------------------------------------- Transaction: BeginTx
\* Variant of the BeginTx failure path that flushes without a status.
BeginTxFailNoStatus(r) ==
    /\ pc[r] = "Idle"
    /\ calls' = [calls EXCEPT ![r] =
                    @ \o <<Call("BeginTx", 0, << >>, NoTx, TRUE)>>
                      \o Finish(sw[r])]
    /\ pc' = [pc EXCEPT ![r] = "Flushed"]
    /\ UNCHANGED <<sw, hdr, tx, ctx, got, panicking, hist, nextTx, limit, mw>>

\* db.BeginTx fails: sw.WriteHeader(500); sw.Finish(); return
BeginTxFail(r) ==
    /\ pc[r] = "Idle"
    /\ LET w == WriteHeader(sw[r], StatusInternalServerError) IN
        /\ sw' = [sw EXCEPT ![r] = w]
        /\ calls' = [calls EXCEPT ![r] =
                        @ \o <<Call("BeginTx", 0, << >>, NoTx, TRUE)>>
                          \o Finish(w)]
    /\ pc' = [pc EXCEPT ![r] = "Flushed"]
    /\ UNCHANGED <<hdr, tx, ctx, got, panicking, hist, nextTx, limit, mw>>

\* db.BeginTx succeeds: the cleanup is deferred, the transaction is put in
\* the context and next.ServeHTTP(sw, r.WithContext(txCtx)) is entered.
BeginTxOk(r) ==
    /\ pc[r] = "Idle"
    /\ tx' = [tx EXCEPT ![r] = nextTx]
    /\ nextTx' = nextTx + 1
    /\ ctx' = [ctx EXCEPT ![r] = setTransaction(@, nextTx)]
    /\ calls' = [calls EXCEPT ![r] =
                    @ \o <<Call("BeginTx", 0, << >>, nextTx, FALSE),
                           Call("next.ServeHTTP", 0, << >>, NoTx, FALSE)>>]
    /\ pc' = [pc EXCEPT ![r] = "Running"]
    /\ UNCHANGED <<sw, hdr, got, panicking, hist, limit, mw>>

\* ------------------------------------------------------ the wrapped handler
HCall(op, code, bytes) == [op |-> op, code |-> code, bytes |-> bytes]

CanCall(r) == pc[r] = "Running" /\ Len(hist[r]) < limit

HandlerWriteHeader(r, s) ==
    /\ CanCall(r)
    /\ sw' = [sw EXCEPT ![r] = WriteHeader(@, s)]
    /\ hist' = [hist EXCEPT ![r] = Append(@, HCall("WriteHeader", s, << >>))]
    /\ UNCHANGED <<pc, hdr, tx, ctx, got, panicking, calls, nextTx, limit, mw>>

\* Variant of the handler's Write that also writes through to the
\* underlying writer.
HandlerWriteThrough(r, b) ==
    /\ CanCall(r)
    /\ sw' = [sw EXCEPT ![r] = Write(@, b)]
    /\ hist' = [hist EXCEPT ![r] = Append(@, HCall("Write", 0, b))]
    /\ calls' = [calls EXCEPT ![r] = Append(@, rwWrite(b))]
    /\ UNCHANGED <<pc, hdr, tx, ctx, got, panicking, nextTx, limit, mw>>

\* Variant of the handler's Write with one capture shared by all requests.
HandlerWriteShared(r, b) ==
    /\ CanCall(r)
    /\ sw' = [q \in Reqs |-> Write(sw[q], b)]
    /\ hist' = [hist EXCEPT ![r] = Append(@, HCall("Write", 0, b))]
    /\ UNCHANGED <<pc, hdr, tx, ctx, got, panicking, calls, nextTx, limit, mw>>

HandlerWrite(r, b) ==
    /\ CanCall(r)
    /\ sw' = [sw EXCEPT ![r] = Write(@, b)]
    /\ hist' = [hist EXCEPT ![r] = Append(@, HCall("Write", 0, b))]
    /\ UNCHANGED <<pc, hdr, tx, ctx, got, panicking, calls, nextTx, limit, mw>>

\* Variant of the handler's Header().Set in which Header returns a container
\* of its own instead of the underlying writer's.
HandlerSetHeaderBuffered(r, k, v) ==
    /\ CanCall(r)
    /\ hist' = [hist EXCEPT ![r] = Append(@, HCall("Header", 0, <<k, v>>))]
    /\ UNCHANGED <<pc, sw, hdr, tx, ctx, got, panicking, calls, nextTx, limit, mw>>

\* w.Header().Set(k, v): statusWriter.Header returns sw.rw.Header()
HandlerSetHeader(r, k, v) ==
    /\ CanCall(r)
    /\ hdr' = [hdr EXCEPT ![r][k] = v]
    /\ hist' = [hist EXCEPT ![r] = Append(@, HCall("Header", 0, <<k, v>>))]
    /\ UNCHANGED <<pc, sw, tx, ctx, got, panicking, calls, nextTx, limit, mw>>

\* tx := GetTransaction(r.Context())
HandlerGetTransaction(r) ==
    /\ CanCall(r)
    /\ LET res == GetTransaction(ctx[r]) IN
        /\ got' = [got EXCEPT ![r] = res.tx]
        /\ panicking' = [panicking EXCEPT ![r] = res.panic]
        /\ pc' = [pc EXCEPT ![r] = IF res.panic THEN "Deferred" ELSE @]
    /\ hist' = [hist EXCEPT ![r] =
                   Append(@, HCall("GetTransaction", 0, << >>))
                     \o (IF GetTransaction(ctx[r]).panic
                            THEN <<HCall("panic", 0, << >>)>> ELSE << >>)]
    /\ UNCHANGED <<sw, hdr, tx, ctx, calls, nextTx, limit, mw>>

HandlerReturn(r) ==
    /\ pc[r] = "Running"
    /\ pc' = [pc EXCEPT ![r] = "Deferred"]
    /\ hist' = [hist EXCEPT ![r] = Append(@, HCall("return", 0, << >>))]
    /\ UNCHANGED <<sw, hdr, tx, ctx, got, panicking, calls, nextTx, limit, mw>>

\* panic(v) with a non-nil v
HandlerPanic(r) ==
    /\ pc[r] = "Running"
    /\ panicking' = [panicking EXCEPT ![r] = TRUE]
    /\ pc' = [pc EXCEPT ![r] = "Deferred"]
    /\ hist' = [hist EXCEPT ![r] = Append(@, HCall("panic", 0, << >>))]
    /\ UNCHANGED <<sw, hdr, tx, ctx, got, calls, nextTx, limit, mw>>

\* ------------------------------------------- Transaction: deferred cleanup
\* Variant of the recover branch that keeps the handler's status.
DeferRecoverKeepStatus(r, rbErr) ==
    /\ pc[r] = "Deferred"
    /\ panicking[r]
    /\ panicking' = [panicking EXCEPT ![r] = FALSE]
    /\ calls' = [calls EXCEPT ![r] =
                    Append(@, Call("Rollback", 0, << >>, tx[r], rbErr))]
    /\ pc' = [pc EXCEPT ![r] = "RolledBack"]
    /\ UNCHANGED <<sw, hdr, tx, ctx, got, hist, nextTx, limit, mw>>

\* if rec := recover(); rec != nil { tx.Rollback(); sw.WriteHeader(500) ...
DeferRecover(r, rbErr) ==
    /\ pc[r] = "Deferred"
    /\ panicking[r]
    /\ panicking' = [panicking EXCEPT ![r] = FALSE]
    /\ calls' = [calls EXCEPT ![r] =
                    Append(@, Call("Rollback", 0, << >>, tx[r], rbErr))]
    /\ sw' = [sw EXCEPT ![r] = WriteHeader(@, StatusInternalServerError)]
    /\ pc' = [pc EXCEPT ![r] = "RolledBack"]
    /\ UNCHANGED <<hdr, tx, ctx, got, hist, nextTx, limit, mw>>

\* Variant of the non-success branch that lets an unset status through to
\* the commit step.
DeferNotOkUnlessUnset(r, rbErr) ==
    /\ pc[r] = "Deferred"
    /\ ~panicking[r]
    /\ ~isHTTPStatusOk(sw[r].status)
    /\ sw[r].status # 0
    /\ calls' = [calls EXCEPT ![r] =
                    Append(@, Call("Rollback", 0, << >>, tx[r], rbErr))]
    /\ pc' = [pc EXCEPT ![r] = "RolledBack"]
    /\ UNCHANGED <<sw, hdr, tx, ctx, got, panicking, hist, nextTx, limit, mw>>

\* Variant of the non-success branch that flushes and then falls through
\* to the flush at the end of the cleanup.
DeferNotOkFlushesToo(r, rbErr) ==
    /\ pc[r] = "Deferred"
    /\ ~panicking[r]
    /\ ~isHTTPStatusOk(sw[r].status)
    /\ calls' = [calls EXCEPT ![r] =
                    Append(@, Call("Rollback", 0, << >>, tx[r], rbErr))
                        \o Finish(sw[r])]
    /\ pc' = [pc EXCEPT ![r] = "RolledBack"]
    /\ UNCHANGED <<sw, hdr, tx, ctx, got, panicking, hist, nextTx, limit, mw>>

\* Variant of the non-success branch that turns a failed Rollback into a
\* 500 response.
DeferNotOkSurfacesRollbackErr(r, rbErr) ==
    /\ pc[r] = "Deferred"
    /\ ~panicking[r]
    /\ ~isHTTPStatusOk(sw[r].status)
    /\ calls' = [calls EXCEPT ![r] =
                    Append(@, Call("Rollback", 0, << >>, tx[r], rbErr))]
    /\ sw' = [sw EXCEPT ![r] =
                 IF rbErr THEN WriteHeader(@, StatusInternalServerError) ELSE @]
    /\ pc' = [pc EXCEPT ![r] = "RolledBack"]
    /\ UNCHANGED <<hdr, tx, ctx, got, panicking, hist, nextTx, limit, mw>>

\* if !isHTTPStatusOk(sw.status) { tx.Rollback() ...
DeferNotOk(r, rbErr) ==
    /\ pc[r] = "Deferred"
    /\ ~panicking[r]
    /\ ~isHTTPStatusOk(sw[r].status)
    /\ calls' = [calls EXCEPT ![r] =
                    Append(@, Call("Rollback", 0, << >>, tx[r], rbErr))]
    /\ pc' = [pc EXCEPT ![r] = "RolledBack"]
    /\ UNCHANGED <<sw, hdr, tx, ctx, got, panicking, hist, nextTx, limit, mw>>

\* Variant of the commit step that takes the error branch on every result.
DeferCommitAlwaysErrBranch(r, cErr) ==
    /\ pc[r] = "Deferred"
    /\ ~panicking[r]
    /\ isHTTPStatusOk(sw[r].status)
    /\ calls' = [calls EXCEPT ![r] =
                    Append(@, Call("Commit", 0, << >>, tx[r], cErr))]
    /\ pc' = [pc EXCEPT ![r] = "CommitFailed"]
    /\ UNCHANGED <<sw, hdr, tx, ctx, got, panicking, hist, nextTx, limit, mw>>

\* err := tx.Commit()
DeferCommit(r, cErr) ==
    /\ pc[r] = "Deferred"
    /\ ~panicking[r]
    /\ isHTTPStatusOk(sw[r].status)
    /\ calls' = [calls EXCEPT ![r] =
                    Append(@, Call("Commit", 0, << >>, tx[r], cErr))]
    /\ pc' = [pc EXCEPT ![r] = IF cErr THEN "CommitFailed" ELSE "Committed"]
    /\ UNCHANGED <<sw, hdr, tx, ctx, got, panicking, hist, nextTx, limit, mw>>

\* Variant of the commit-failure branch that omits the rollback.
DeferCommitFailedNoRollback(r, rbErr) ==
    /\ pc[r] = "CommitFailed"
    /\ sw' = [sw EXCEPT ![r] = WriteHeader(@, StatusInternalServerError)]
    /\ pc' = [pc EXCEPT ![r] = "RolledBack"]
    /\ UNCHANGED <<hdr, tx, ctx, got, panicking, hist, calls, nextTx, limit, mw>>

\* if err != nil { tx.Rollback(); sw.WriteHeader(500) ...
DeferCommitFailed(r, rbErr) ==
    /\ pc[r] = "CommitFailed"
    /\ calls' = [calls EXCEPT ![r] =
                    Append(@, Call("Rollback", 0, << >>, tx[r], rbErr))]
    /\ sw' = [sw EXCEPT ![r] = WriteHeader(@, StatusInternalServerError)]
    /\ pc' = [pc EXCEPT ![r] = "RolledBack"]
    /\ UNCHANGED <<hdr, tx, ctx, got, panicking, hist, nextTx, limit, mw>>

\* Variant of the final flush that is skipped after a successful Commit.
DeferFinishOnlyRolledBack(r) ==
    /\ pc[r] = "RolledBack"
    /\ calls' = [calls EXCEPT ![r] = @ \o Finish(sw[r])]
    /\ pc' = [pc EXCEPT ![r] = "Flushed"]
    /\ UNCHANGED <<sw, hdr, tx, ctx, got, panicking, hist, nextTx, limit, mw>>

\* sw.Finish() at the end of each branch of the deferred cleanup
DeferFinish(r) ==
    /\ pc[r] \in {"RolledBack", "Committed"}
    /\ calls' = [calls EXCEPT ![r] = @ \o Finish(sw[r])]
    /\ pc' = [pc EXCEPT ![r] = "Flushed"]
    /\ UNCHANGED <<sw, hdr, tx, ctx, got, panicking, hist, nextTx, limit, mw>>

\* ------------------------------------ requests through Auth, HTTPS and JWT
InitMw ==
    /\ InitWith({}, 0)
    /\ \E a \in AuthHeaders, p \in Protos, h \in Hosts, u \in Paths,
          c \in ForeignCtxs :
           mw = [NoRequest EXCEPT !.pc = "Start",
                                  !.req = Request(a, p, h, u, c)]

txVars == <<pc, sw, hdr, tx, ctx, got, panicking, hist, calls, nextTx, limit>>

\* Auth(authFunc, next).ServeHTTP(w, r) with a user supplied auth function
AuthServe(ok, c) ==
    /\ mw.pc = "Start"
    /\ LET res == AuthResult(ok, c, << >>) IN
           mw' = [mw EXCEPT !.pc = "Done", !.kind = "Auth", !.res = res,
                            !.out = Auth(mw.req, res)]
    /\ UNCHANGED txVars

\* HTTPS(next).ServeHTTP(w, r)
HTTPSServe ==
    /\ mw.pc = "Start"
    /\ mw' = [mw EXCEPT !.pc = "Done", !.kind = "HTTPS",
                        !.out = HTTPS(mw.req)]
    /\ UNCHANGED txVars

\* JWT(options)(next).ServeHTTP(w, r)
JWTServe(parse, userFunc) ==
    /\ mw.pc = "Start"
    /\ mw' = [mw EXCEPT !.pc = "Done", !.kind = "JWT",
                        !.parse = parse, !.userFunc = userFunc,
                        !.res = authenticate(mw.req, parse, userFunc),
                        !.out = JWT(mw.req, parse, userFunc)]
    /\ UNCHANGED txVars

\* The handler behind Auth, HTTPS or JWT calls GetTransaction on the context
\* of the request it was given.
NextGetTransaction ==
    /\ mw.pc = "Done"
    /\ \E i \in DOMAIN mw.out :
           /\ mw.out[i].op = "next.ServeHTTP"
           /\ mw' = [mw EXCEPT !.pc = "Called",
                               !.got = GetTransaction(mw.out[i].req.ctx)]
    /\ UNCHANGED txVars

NextMw ==
    \/ NextGetTransaction
    \/ \E ok \in BOOLEAN, c \in {mw.req.ctx, withUser(mw.req.ctx)} :
           AuthServe(ok, c)
    \/ HTTPSServe
    \/ \E parse \in ParseResults, f \in UserFuncs(mw.req.ctx) :
           JWTServe(parse, f)

\* ------------------------------------------------- vocabulary of the claims
\* The calls of calls[r] whose op is in ops, in order.
Only(r, ops) == SelectSeq(calls[r], LAMBDA c : c.op \in ops)

\* What the underlying writer of request r has received, in order.
RwCalls(r) == Only(r, {"rw.WriteHeader", "rw.Write"})
\* The calls made on the database and on the transaction, in order.
DbCalls(r) == Only(r, {"BeginTx", "Commit", "Rollback"})
DbOps(r) == [i \in DOMAIN DbCalls(r) |-> DbCalls(r)[i].op]
Count(r, op) == Len(Only(r, {op}))

\* The body the underlying writer has received.
RECURSIVE BodyOf(_)
BodyOf(cs) ==
    IF cs = << >> THEN << >>
    ELSE (IF Head(cs).op = "rw.Write" THEN Head(cs).bytes ELSE << >>)
            \o BodyOf(Tail(cs))
RwBody(r) == BodyOf(RwCalls(r))

\* The status the client observes: the code of the first WriteHeader the
\* underlying writer received, and the runtime's default 200 otherwise.
ClientStatus(r) ==
    IF RwCalls(r) # << >> /\ Head(RwCalls(r)).op = "rw.WriteHeader"
        THEN Head(RwCalls(r)).code
        ELSE StatusOK

\* How the handler ended: "return", "panic", or "" while it still runs.
Ended(r) ==
    IF hist[r] # << >> /\ hist[r][Len(hist[r])].op \in {"return", "panic"}
        THEN hist[r][Len(hist[r])].op
        ELSE ""
Returned(r) == Ended(r) = "return"
Panicked(r) == Ended(r) = "panic"

\* The concatenation, in order, of the byte slices the handler wrote.
RECURSIVE WrittenBytes(_)
WrittenBytes(h) ==
    IF h = << >> THEN << >>
    ELSE (IF Head(h).op = "Write" THEN Head(h).bytes ELSE << >>)
            \o WrittenBytes(Tail(h))

\* The status a handler history leaves recorded, starting from status s:
\* the last WriteHeader argument, 200 from a Write on an unset status.
RECURSIVE RecordedFrom(_, _)
RecordedFrom(h, s) ==
    IF h = << >> THEN s
    ELSE RecordedFrom(Tail(h),
            IF Head(h).op = "WriteHeader" THEN Head(h).code
            ELSE IF Head(h).op = "Write" /\ s = 0 THEN StatusOK
            ELSE s)
Recorded(r) == RecordedFrom(hist[r], 0)

\* The handler made at least one call and every call was a Write.
OnlyWrites(r) ==
    /\ Returned(r)
    /\ Len(hist[r]) >= 2
    /\ \A i \in 1..(Len(hist[r]) - 1) : hist[r][i].op = "Write"

BeginFailed(r) == calls[r] # << >> /\ Head(calls[r]).err
CommitOk(r) == \E i \in DOMAIN calls[r] :
                   calls[r][i].op = "Commit" /\ ~calls[r][i].err
CommitErr(r) == \E i \in DOMAIN calls[r] :
                    calls[r][i].op = "Commit" /\ calls[r][i].err

\* ------------------------------------------------------------------ claims
\* C1: when the handler returns normally and the recorded status is non-zero
\* and outside 200..299, Commit is never invoked, Rollback is invoked, and the
\* underlying writer receives exactly the recorded status followed by exactly
\* the concatenation of the written bytes.
C1_NonSuccessRollsBackVerbatim ==
    \A r \in Reqs :
        (Returned(r) /\ Recorded(r) # 0 /\ ~(Recorded(r) \in 200..299)) =>
            /\ Count(r, "Commit") = 0
            /\ pc[r] # "Deferred" => DbOps(r) = <<"BeginTx", "Rollback">>
            /\ pc[r] = "Flushed" =>
                   RwCalls(r) = <<rwWriteHeader(Recorded(r)),
                                  rwWrite(WrittenBytes(hist[r]))>>

C1_Witness ==
    \E r \in Reqs :
        /\ pc[r] = "Flushed" /\ Returned(r)
        /\ Recorded(r) = 503
        /\ Len(WrittenBytes(hist[r])) >= 2
        /\ Count(r, "Rollback") = 1

\* C2: when the handler returns normally, the last recorded status is in
\* 200..299 and Commit returns no error, Commit is invoked exactly once,
\* Rollback never, and the underlying writer receives exactly that status
\* followed by exactly the concatenation of all written bytes.
C2_SuccessCommitsVerbatim ==
    \A r \in Reqs :
        (Returned(r) /\ Recorded(r) \in 200..299 /\ CommitOk(r)) =>
            /\ DbOps(r) = <<"BeginTx", "Commit">>
            /\ pc[r] \in {"Committed", "Flushed"}
            /\ pc[r] = "Committed" => RwCalls(r) = << >>
            /\ pc[r] = "Flushed" =>
                   RwCalls(r) = <<rwWriteHeader(Recorded(r)),
                                  rwWrite(WrittenBytes(hist[r]))>>

C2_Witness ==
    \E r \in Reqs :
        /\ pc[r] = "Flushed" /\ Returned(r) /\ CommitOk(r)
        /\ Recorded(r) = 299
        /\ Count(r, "next.ServeHTTP") = 1
        /\ \E i \in DOMAIN hist[r] :
               hist[r][i].op = "WriteHeader" /\ hist[r][i].code = 404
        /\ WrittenBytes(hist[r]) # << >>

\* C3: when the handler panics, whatever it recorded before, Rollback is
\* invoked, Commit is never invoked, the panic does not leave ServeHTTP, and
\* the status the underlying writer receives is 500.
C3_PanicRollsBackWith500 ==
    \A r \in Reqs :
        Panicked(r) =>
            /\ Count(r, "Commit") = 0
            /\ pc[r] # "Deferred" =>
                   /\ DbOps(r) = <<"BeginTx", "Rollback">>
                   /\ ~panicking[r]
            /\ pc[r] = "Flushed" =>
                   /\ Count(r, "rw.WriteHeader") = 1
                   /\ Head(RwCalls(r)) = rwWriteHeader(StatusInternalServerError)

C3_Witness ==
    \E r \in Reqs :
        /\ pc[r] = "Flushed" /\ Panicked(r)
        /\ Recorded(r) = 200
        /\ ~panicking[r]
        /\ ClientStatus(r) = StatusInternalServerError

\* C4: when the handler panics, the body delivered to the underlying writer
\* is empty: no byte the handler wrote before panicking is delivered.  (A
\* fixed body has to be the empty one, which is what a handler that panics
\* before writing anything gets.)
C4_PanicDeliversNoHandlerBytes ==
    \A r \in Reqs :
        (Panicked(r) /\ pc[r] = "Flushed") => RwBody(r) = << >>

\* C5: when BeginTx returns an error the handler is never invoked, neither
\* Commit nor Rollback is invoked, and the underlying writer receives status
\* 500 with an empty body.
C5_BeginFailureIs500 ==
    \A r \in Reqs :
        BeginFailed(r) =>
            /\ pc[r] = "Flushed"
            /\ hist[r] = << >>
            /\ Count(r, "next.ServeHTTP") = 0
            /\ DbOps(r) = <<"BeginTx">>
            /\ RwCalls(r) = <<rwWriteHeader(StatusInternalServerError),
                              rwWrite(<< >>)>>

C5_Witness ==
    \E r \in Reqs :
        /\ BeginFailed(r)
        /\ pc[r] = "Flushed"
        /\ tx[r] = NoTx
        /\ Len(calls[r]) = 3

\* C6: when the handler returns normally with a recorded 2xx status and
\* Commit returns an error, Rollback is invoked after the failed Commit and
\* the status written to the underlying writer is 500.
C6_CommitFailureRollsBackWith500 ==
    \A r \in Reqs :
        (Returned(r) /\ Recorded(r) \in 200..299 /\ CommitErr(r)) =>
            /\ pc[r] \in {"CommitFailed", "RolledBack", "Flushed"}
            /\ pc[r] = "CommitFailed" => DbOps(r) = <<"BeginTx", "Commit">>
            /\ pc[r] # "CommitFailed" =>
                   DbOps(r) = <<"BeginTx", "Commit", "Rollback">>
            /\ pc[r] = "Flushed" =>
                   /\ Count(r, "rw.WriteHeader") = 1
                   /\ Head(RwCalls(r)) = rwWriteHeader(StatusInternalServerError)

C6_Witness ==
    \E r \in Reqs :
        /\ pc[r] = "Flushed" /\ Returned(r) /\ CommitErr(r)
        /\ Recorded(r) = 200
        /\ calls[r][Len(calls[r]) - 2].op = "Rollback"
        /\ ClientStatus(r) = StatusInternalServerError

\* C7: when Commit returns an error the body the handler wrote is discarded:
\* none of its bytes is written to the underlying writer.
C7_CommitFailureDiscardsBody ==
    \A r \in Reqs :
        (CommitErr(r) /\ pc[r] = "Flushed") => RwBody(r) = << >>

\* C8: in a completed request whose transaction was rolled back, the status
\* the client observes is not in 200..299.
C8_RolledBackNeverLooksSuccessful ==
    \A r \in Reqs :
        (pc[r] = "Flushed" /\ Count(r, "Rollback") > 0) =>
            ~(ClientStatus(r) \in 200..299)

\* C9 as stated: BeginTx is called exactly once and, when it succeeds,
\* the number of Commit plus Rollback invocations is 1.
C9_ExactlyOneTerminalCall ==
    \A r \in Reqs :
        (pc[r] = "Flushed" /\ ~BeginFailed(r)) =>
            /\ Count(r, "BeginTx") = 1
            /\ Count(r, "Commit") + Count(r, "Rollback") = 1

\* C9 amended: BeginTx is called exactly once; when it succeeds, Commit and
\* Rollback are each invoked at most once, and their total is 1 unless Commit
\* returned an error, in which case that Commit is followed by one Rollback
\* (total 2).
C9_OneTerminalCallUnlessCommitFails ==
    \A r \in Reqs :
        /\ pc[r] \notin {"Idle", "Unused"} => Count(r, "BeginTx") = 1
        /\ Count(r, "Commit") <= 1
        /\ Count(r, "Rollback") <= 1
        /\ (pc[r] = "Flushed" /\ ~BeginFailed(r)) =>
               Count(r, "Commit") + Count(r, "Rollback")
                   = IF CommitErr(r) THEN 2 ELSE 1

C9_Witness ==
    \E r \in Reqs :
        /\ pc[r] = "Flushed" /\ ~BeginFailed(r)
        /\ CommitErr(r)
        /\ Count(r, "Commit") = 1
        /\ Count(r, "Rollback") = 1

\* C10: when the handler only calls Write, never WriteHeader, and returns
\* normally, the recorded status is 200, Commit is attempted, and when Commit
\* succeeds the underlying writer receives status 200 and exactly the
\* written bytes.
C10_WriteOnlyIsImplicit200 ==
    \A r \in Reqs :
        OnlyWrites(r) =>
            /\ pc[r] \in {"Deferred", "Committed", "CommitFailed"} =>
                   sw[r].status = StatusOK
            /\ pc[r] # "Deferred" => Count(r, "Commit") = 1
            /\ (pc[r] = "Flushed" /\ CommitOk(r)) =>
                   RwCalls(r) = <<rwWriteHeader(StatusOK),
                                  rwWrite(WrittenBytes(hist[r]))>>

C10_Witness ==
    \E r \in Reqs :
        /\ OnlyWrites(r)
        /\ pc[r] = "Flushed" /\ CommitOk(r)
        /\ Len(hist[r]) = 3
        /\ RwBody(r) = <<2, 3, 1>>


\* The handler made no call that records a status.
NoStatusCall(r) ==
    \A i \in DOMAIN hist[r] : hist[r][i].op \notin {"WriteHeader", "Write"}

\* The handler called GetTransaction.
CalledGetTransaction(r) ==
    \E i \in DOMAIN hist[r] : hist[r][i].op = "GetTransaction"

\* C11 as stated: when the handler returns normally without ever recording a
\* status (no WriteHeader and no Write call), Commit is attempted.
C11_UnsetStatusCommits ==
    \A r \in Reqs :
        (Returned(r) /\ NoStatusCall(r) /\ pc[r] # "Deferred") =>
            Count(r, "Commit") = 1

\* C12: on every path where BeginTx succeeded, nothing reaches the underlying
\* writer while the handler runs or before the outcome is decided: every
\* WriteHeader/Write on the underlying writer comes after a Rollback call, or
\* after a Commit call that returned no error.
C12_NothingWrittenBeforeOutcome ==
    \A r \in Reqs :
        ~BeginFailed(r) =>
            /\ pc[r] \in {"Running", "Deferred", "CommitFailed",
                          "RolledBack", "Committed"} => RwCalls(r) = << >>
            /\ \A i \in DOMAIN calls[r] :
                   calls[r][i].op \in {"rw.WriteHeader", "rw.Write"} =>
                       \E j \in 1..(i - 1) :
                           \/ calls[r][j].op = "Rollback"
                           \/ calls[r][j].op = "Commit" /\ ~calls[r][j].err

C12_Witness ==
    \E r \in Reqs :
        /\ pc[r] = "Flushed" /\ ~BeginFailed(r)
        /\ Len(hist[r]) = 4
        /\ hist[r][1].op = "Write" /\ hist[r][1].bytes # << >>
        /\ hist[r][2].op = "WriteHeader"
        /\ Len(RwCalls(r)) = 2
        /\ RwBody(r) # << >>

\* C13: whenever the handler is invoked, GetTransaction on its request
\* context returns the non-nil transaction BeginTx returned for this request,
\* and that same transaction is the one later committed or rolled back.
C13_HandlerSeesItsTransaction ==
    \A r \in Reqs :
        /\ pc[r] = "Running" =>
               /\ ~GetTransaction(ctx[r]).panic
               /\ GetTransaction(ctx[r]).tx = tx[r]
               /\ tx[r] # NoTx
        /\ CalledGetTransaction(r) =>
               /\ got[r] # NoTx
               /\ got[r] = DbCalls(r)[1].tx
               /\ \A i \in DOMAIN calls[r] :
                      calls[r][i].op \in {"Commit", "Rollback"} =>
                          calls[r][i].tx = got[r]

C13_Witness ==
    \E r \in Reqs :
        /\ pc[r] = "Flushed"
        /\ CalledGetTransaction(r)
        /\ got[r] = 1
        /\ Count(r, "Commit") = 1 /\ Count(r, "Rollback") = 1
        /\ \A i \in DOMAIN calls[r] :
               calls[r][i].op \in {"Commit", "Rollback"} => calls[r][i].tx = 1

\* The handler called WriteHeader.
CalledWriteHeader(r) ==
    \E i \in DOMAIN hist[r] : hist[r][i].op = "WriteHeader"

\* The argument of the handler's most recent WriteHeader call.
LastWriteHeader(r) ==
    LET last == CHOOSE i \in DOMAIN hist[r] :
                    /\ hist[r][i].op = "WriteHeader"
                    /\ \A j \in DOMAIN hist[r] :
                           j > i => hist[r][j].op # "WriteHeader"
    IN hist[r][last].code

\* The headers a handler history sets, the last Set of a key winning.
RECURSIVE HeadersFrom(_, _)
HeadersFrom(h, hs) ==
    IF h = << >> THEN hs
    ELSE HeadersFrom(Tail(h),
            IF Head(h).op = "Header"
                THEN [hs EXCEPT ![Head(h).bytes[1]] = Head(h).bytes[2]]
                ELSE hs)

\* C17: WriteHeader may be called any number of times and the last call
\* wins: the recorded status is the argument of the most recent call, and
\* that status decides between commit and rollback and is the one flushed.
C17_LastWriteHeaderWins ==
    \A r \in Reqs :
        CalledWriteHeader(r) =>
            /\ pc[r] \in {"Running", "Deferred"} =>
                   sw[r].status = LastWriteHeader(r)
            /\ (Returned(r) /\ pc[r] # "Deferred") =>
                   IF LastWriteHeader(r) \in 200..299
                       THEN Count(r, "Commit") = 1
                       ELSE Count(r, "Commit") = 0 /\ Count(r, "Rollback") = 1
            /\ (Returned(r) /\ pc[r] = "Flushed" /\ ~CommitErr(r)) =>
                   Head(RwCalls(r)) = rwWriteHeader(LastWriteHeader(r))

C17_Witness ==
    \E r \in Reqs :
        /\ pc[r] = "Flushed"
        /\ hist[r] = <<HCall("WriteHeader", 200, << >>),
                       HCall("WriteHeader", 500, << >>),
                       HCall("return", 0, << >>)>>
        /\ DbOps(r) = <<"BeginTx", "Rollback">>
        /\ ClientStatus(r) = 500

\* C18: Write records 200 only on an unset status and never changes a
\* recorded one; it always appends, so while the handler runs and when it has
\* ended the buffer is the in-order concatenation of the written slices, the
\* status is what the calls recorded, and the underlying writer has received
\* nothing.
C18_WriteBuffersAndKeepsStatus ==
    \A r \in Reqs :
        pc[r] \in {"Running", "Deferred"} =>
            /\ sw[r].buf = WrittenBytes(hist[r])
            /\ sw[r].status = Recorded(r)
            /\ CalledWriteHeader(r) => sw[r].status = LastWriteHeader(r)
            /\ RwCalls(r) = << >>

C18_Witness ==
    \E r \in Reqs :
        /\ pc[r] = "Deferred"
        /\ hist[r] = <<HCall("WriteHeader", 404, << >>),
                       HCall("Write", 0, <<1>>),
                       HCall("Write", 0, <<2, 3>>),
                       HCall("return", 0, << >>)>>
        /\ sw[r] = [status |-> 404, buf |-> <<1, 2, 3>>]

\* C19: headers are not buffered: in every state, on every outcome, the
\* underlying writer's header container holds exactly the headers the handler
\* has set so far; the middleware itself never adds, removes or changes one.
C19_HeadersPassThrough ==
    \A r \in Reqs : hdr[r] = HeadersFrom(hist[r], NoHeaders)

C19_Witness ==
    \E r \in Reqs :
        /\ pc[r] = "Flushed"
        /\ CommitErr(r)
        /\ hdr[r]["Content-Type"] = "application/json"
        /\ hist[r][1] = HCall("Header", 0, <<"Content-Type", "text/plain">>)

\* C20 as stated: when no status was recorded at flush time, Finish makes no
\* WriteHeader and no Write call on the underlying writer.
C20_FinishUnsetIsNoOp ==
    \A r \in Reqs :
        (pc[r] = "Flushed" /\ sw[r].status = 0) => RwCalls(r) = << >>

\* C20 amended: when no status was recorded at flush time, Finish makes no
\* WriteHeader call on the underlying writer and exactly one Write call,
\* which carries the buffer.
C20_FinishUnsetOnlyWritesBuffer ==
    \A r \in Reqs :
        (pc[r] = "Flushed" /\ sw[r].status = 0) =>
            /\ Count(r, "rw.WriteHeader") = 0
            /\ RwCalls(r) = <<rwWrite(sw[r].buf)>>

C20_Witness ==
    \E r \in Reqs :
        /\ pc[r] = "Flushed"
        /\ sw[r].status = 0
        /\ Len(hist[r]) = 3
        /\ Count(r, "Rollback") = 1
        /\ Len(RwCalls(r)) = 1

\* -------------------------------------- claims about Auth, HTTPS and JWT
\* The number of calls with the given op the middleware made.
MCount(op) == Len(SelectSeq(mw.out, LAMBDA c : c.op = op))
\* The requests next.ServeHTTP was called with, in order.
NextRequests ==
    LET cs == SelectSeq(mw.out, LAMBDA c : c.op = "next.ServeHTTP")
    IN [i \in DOMAIN cs |-> cs[i].req]
\* The status codes written to the writer, in order.
WrittenCodes ==
    LET cs == SelectSeq(mw.out, LAMBDA c : c.op = "w.WriteHeader")
    IN [i \in DOMAIN cs |-> cs[i].code]
\* The values the Location header was set to, in order.
Locations ==
    LET cs == SelectSeq(mw.out, LAMBDA c : c.op = "w.Header.Set.Location")
    IN [i \in DOMAIN cs |-> cs[i].str]

Served(kind) == mw.pc = "Done" /\ mw.kind = kind

\* C14: Auth invokes next iff the Authorization header is non-empty and the
\* auth function accepts; then next is invoked exactly once with the context
\* the auth function returned and Auth writes no status.  Otherwise Auth
\* writes 401 and never invokes next, and with an empty header the auth
\* function is not called at all.
C14_AuthGatesNext ==
    Served("Auth") =>
        IF mw.req.authorization # "" /\ mw.res.ok
            THEN /\ NextRequests = <<[mw.req EXCEPT !.ctx = mw.res.ctx]>>
                 /\ WrittenCodes = << >>
                 /\ MCount("authFunc") = 1
            ELSE /\ NextRequests = << >>
                 /\ WrittenCodes = <<StatusUnauthorized>>
                 /\ MCount("authFunc") =
                        IF mw.req.authorization = "" THEN 0 ELSE 1

C14_Witness ==
    /\ Served("Auth")
    /\ mw.req.authorization = "magic_password"
    /\ mw.res.ok
    /\ mw.res.ctx = withUser(mw.req.ctx)
    /\ Len(NextRequests) = 1
    /\ userContextKey \in DOMAIN NextRequests[1].ctx

\* C15: HTTPS answers a request whose x-forwarded-proto header is "http"
\* with a 308 whose Location is exactly "https://" + Host + URL path, without
\* invoking next; for every other value, absent included, it invokes next
\* exactly once with the original request and writes nothing itself.
C15_HTTPSRedirectsOnlyHttp ==
    Served("HTTPS") =>
        IF mw.req.proto = "http"
            THEN /\ NextRequests = << >>
                 /\ WrittenCodes = <<StatusPermanentRedirect>>
                 /\ Locations = <<httpsScheme \o mw.req.host \o mw.req.path>>
                 /\ mw.out[Len(mw.out)].op = "w.WriteHeader"
            ELSE mw.out = <<nextServeHTTP(mw.req)>>

C15_Witness ==
    /\ Served("HTTPS")
    /\ mw.req.proto = "http"
    /\ Locations = <<<<"h", "t", "t", "p", "s", ":", "/", "/",
                       "e", ".", "c", "/", "t">>>>
    /\ WrittenCodes = <<308>>

\* C16: through JWT, a token that fails to parse is rejected with 401 and the
\* JWTFunc is not called; for a token that parses as valid, a JWTFunc that
\* returns an error gives 401 and next is never called, a JWTFunc that returns
\* no error has next called with the context it returned, and without a
\* JWTFunc next is called with the context unchanged.
C16_JWTFuncDecides ==
    (Served("JWT") /\ mw.req.authorization # "") =>
        /\ MCount("jwt.Parse") = 1
        /\ mw.parse.err =>
               /\ MCount("userSuppliedFunc") = 0
               /\ NextRequests = << >>
               /\ WrittenCodes = <<StatusUnauthorized>>
        /\ (~mw.parse.err /\ mw.parse.valid /\ ~mw.userFunc.nil) =>
               /\ MCount("userSuppliedFunc") = 1
               /\ IF mw.userFunc.err
                      THEN /\ NextRequests = << >>
                           /\ WrittenCodes = <<StatusUnauthorized>>
                      ELSE /\ NextRequests =
                                  <<[mw.req EXCEPT !.ctx = mw.userFunc.ctx]>>
                           /\ WrittenCodes = << >>
        /\ (~mw.parse.err /\ mw.parse.valid /\ mw.userFunc.nil) =>
               /\ MCount("userSuppliedFunc") = 0
               /\ NextRequests = <<mw.req>>
               /\ WrittenCodes = << >>

C16_Witness ==
    /\ Served("JWT")
    /\ mw.req.authorization = "magic_password"
    /\ ~mw.parse.err /\ mw.parse.valid
    /\ ~mw.userFunc.nil /\ mw.userFunc.err
    /\ MCount("userSuppliedFunc") = 1
    /\ WrittenCodes = <<401>>
    /\ NextRequests = << >>

\* C21: on every path through Transaction the capture is flushed exactly
\* once: before the flush the underlying writer has received nothing, the
\* flush makes at most one WriteHeader call and exactly one Write call with
\* the WriteHeader first, and after the flush the middleware makes no
\* further call.
C21_FlushOnceHeaderFirst ==
    /\ [](\A r \in Reqs :
            /\ pc[r] # "Flushed" => RwCalls(r) = << >>
            /\ pc[r] = "Flushed" =>
                   /\ Count(r, "rw.Write") = 1
                   /\ Count(r, "rw.WriteHeader") <= 1
                   /\ RwCalls(r)[Len(RwCalls(r))].op = "rw.Write"
                   /\ calls[r][Len(calls[r])].op = "rw.Write")
    /\ [][\A r \in Reqs : pc[r] = "Flushed" =>
              calls'[r] = calls[r] /\ pc'[r] = "Flushed"]_vars

C21_Witness ==
    \E r \in Reqs :
        /\ pc[r] = "Flushed"
        /\ CommitErr(r)
        /\ Len(RwCalls(r)) = 2
        /\ RwCalls(r)[1] = rwWriteHeader(StatusInternalServerError)
        /\ RwCalls(r)[2].op = "rw.Write" /\ RwCalls(r)[2].bytes # << >>

\* C22: for a handler that returns normally with a recorded non-zero status
\* s, Commit is attempted iff 200 <= s <= 299; every other status leads to
\* Rollback with no Commit attempt, the check coming before any Commit call.
C22_CommitIffSuccessRange ==
    \A r \in Reqs :
        (Returned(r) /\ Recorded(r) # 0) =>
            /\ pc[r] = "Deferred" => DbOps(r) = <<"BeginTx">>
            /\ pc[r] # "Deferred" =>
                   IF 200 <= Recorded(r) /\ Recorded(r) <= 299
                       THEN DbOps(r)[2] = "Commit"
                       ELSE DbOps(r) = <<"BeginTx", "Rollback">>

C22_Witness ==
    \E r \in Reqs :
        /\ Returned(r)
        /\ pc[r] = "Committed"
        /\ Recorded(r) = 200
        /\ \E i \in DOMAIN hist[r] :
               hist[r][i].op = "WriteHeader" /\ hist[r][i].code = 300
        /\ DbOps(r) = <<"BeginTx", "Commit">>

\* The results of the BeginTx and Commit calls of request r, in order.
BeginCommitErrs(r) ==
    LET cs == Only(r, {"BeginTx", "Commit"}) IN [i \in DOMAIN cs |-> cs[i].err]
\* The results of the Rollback calls of request r, in order.
RollbackErrs(r) ==
    LET cs == Only(r, {"Rollback"}) IN [i \in DOMAIN cs |-> cs[i].err]
\* Two finished runs with the same handler behaviour and the same BeginTx
\* and Commit results: they can differ only in what Rollback returned.
SameRunButRollback(a, b) ==
    /\ pc[a] = "Flushed" /\ pc[b] = "Flushed"
    /\ hist[a] = hist[b]
    /\ BeginCommitErrs(a) = BeginCommitErrs(b)

\* C23: the result of Rollback never influences the response.  Two runs of
\* the same request that differ only in whether Rollback returns an error
\* deliver the same status and body to the underlying writer, make the same
\* database calls with Rollback as the last of them, and end without a
\* panic in flight.
C23_RollbackResultIgnored ==
    \A a \in Reqs, b \in Reqs :
        SameRunButRollback(a, b) =>
            /\ RwCalls(a) = RwCalls(b)
            /\ hdr[a] = hdr[b]
            /\ DbOps(a) = DbOps(b)
            /\ Count(a, "Rollback") <= 1
            /\ Count(a, "Rollback") = 1 => DbOps(a)[Len(DbOps(a))] = "Rollback"
            /\ ~panicking[a] /\ ~panicking[b]

C23_Witness ==
    \E a \in Reqs, b \in Reqs :
        /\ SameRunButRollback(a, b)
        /\ Recorded(a) = 404 /\ Returned(a)
        /\ RollbackErrs(a) = <<TRUE>> /\ RollbackErrs(b) = <<FALSE>>
        /\ RwCalls(a) = RwCalls(b)
        /\ ClientStatus(a) = 404

\* The state of the coordinator of request r, read off the calls it made.
CoordState(r) ==
    IF RwCalls(r) # << >> THEN "Flushed"
    ELSE IF Count(r, "Rollback") > 0 THEN "RolledBack"
    ELSE IF CommitOk(r) THEN "Committed"
    ELSE IF calls[r] # << >> THEN "Began"
    ELSE "Idle"

CoordOrder ==
    {<<"Idle", "Began">>, <<"Idle", "Flushed">>,
     <<"Began", "Committed">>, <<"Began", "RolledBack">>,
     <<"Committed", "Flushed">>, <<"RolledBack", "Flushed">>}

\* C24: every request whose handler returned or panicked eventually reaches
\* Flushed; the coordinator changes state only along Idle -> Began ->
\* (Committed or RolledBack) -> Flushed, or Idle -> Flushed when BeginTx
\* fails; Flushed is terminal and no Rollback follows a successful Commit.
C24_ReachesFlushedInOrder ==
    /\ \A r \in Reqs : (Ended(r) # "") ~> (CoordState(r) = "Flushed")
    /\ [][\A r \in Reqs :
            CoordState(r)' # CoordState(r) =>
                /\ <<CoordState(r), CoordState(r)'>> \in CoordOrder
                /\ (CoordState(r) = "Idle" /\ CoordState(r)' = "Flushed")
                       <=> BeginFailed(r)']_vars
    /\ [](\A r \in Reqs : ~(CommitOk(r) /\ Count(r, "Rollback") > 0))

C24_Witness ==
    \E r \in Reqs :
        /\ Panicked(r)
        /\ CoordState(r) = "Flushed"
        /\ DbOps(r) = <<"BeginTx", "Rollback">>
        /\ pc[r] = "Flushed"

\* The status the flush of request r must carry, from the request's own
\* handler history and its own transaction's outcome.
OwnStatus(r) ==
    IF BeginFailed(r) \/ Panicked(r) \/ CommitErr(r)
        THEN StatusInternalServerError
        ELSE Recorded(r)

\* C25: with several requests in flight through the same middleware value,
\* what is flushed for a request is determined by that request's own
\* handler calls and its own transaction's outcome, each request has its
\* own transaction, and Commit and Rollback are only invoked on the
\* transaction begun for the request.
C25_RequestsAreIsolated ==
    \A r \in Reqs :
        /\ pc[r] = "Flushed" =>
               RwCalls(r) =
                   (IF OwnStatus(r) # 0 THEN <<rwWriteHeader(OwnStatus(r))>>
                                        ELSE << >>)
                       \o <<rwWrite(WrittenBytes(hist[r]))>>
        /\ \A i \in DOMAIN calls[r] :
               calls[r][i].op \in {"Commit", "Rollback"} =>
                   calls[r][i].tx = tx[r] /\ tx[r] # NoTx
        /\ \A q \in Reqs \ {r} : tx[r] # NoTx => tx[q] # tx[r]

C25_Witness ==
    /\ pc["r1"] = "Flushed" /\ pc["r2"] = "Flushed"
    /\ Returned("r1") /\ Panicked("r2")
    /\ WrittenBytes(hist["r1"]) = <<1>> /\ WrittenBytes(hist["r2"]) = <<2, 3>>
    /\ RwCalls("r1") = <<rwWriteHeader(StatusOK), rwWrite(<<1>>)>>
    /\ RwCalls("r2") =
           <<rwWriteHeader(StatusInternalServerError), rwWrite(<<2, 3>>)>>
    /\ tx["r1"] # tx["r2"]

\* C26: GetTransaction applied to a context that carries no transaction
\* under the package's key panics instead of returning nil or an error, and
\* a value stored under another pointer or under an equal string does not
\* satisfy the lookup.
C26_GetTransactionPanicsWithoutTx ==
    (mw.pc = "Called" /\ txKey \notin DOMAIN NextRequests[1].ctx) =>
        mw.got = [panic |-> TRUE, tx |-> NoTx]

C26_Witness ==
    /\ mw.pc = "Called"
    /\ mw.kind = "HTTPS"
    /\ ctxValue(NextRequests[1].ctx, otherKey) = 1
    /\ mw.got.panic

Next ==
    \E r \in Reqs :
        \/ BeginTxFail(r)
        \/ BeginTxOk(r)
        \/ \E s \in Statuses : HandlerWriteHeader(r, s)
        \/ \E b \in Chunks : HandlerWrite(r, b)
        \/ \E k \in HeaderKeys, v \in HeaderVals : HandlerSetHeader(r, k, v)
        \/ HandlerGetTransaction(r)
        \/ HandlerReturn(r)
        \/ HandlerPanic(r)
        \/ \E e \in BOOLEAN : DeferRecover(r, e)
        \/ \E e \in BOOLEAN : DeferNotOk(r, e)
        \/ \E e \in BOOLEAN : DeferCommit(r, e)
        \/ \E e \in BOOLEAN : DeferCommitFailed(r, e)
        \/ DeferFinish(r)

Spec == Init /\ [][Next]_vars

\* The statuses and chunks of the handlers of concurrently served requests.
ConcStatuses == {200, 404}
ConcChunks == {<<1>>, <<2, 3>>}

NextConc ==
    \E r \in Reqs :
        \/ BeginTxFail(r)
        \/ BeginTxOk(r)
        \/ \E s \in ConcStatuses : HandlerWriteHeader(r, s)
        \/ \E b \in ConcChunks : HandlerWrite(r, b)
        \/ \E k \in HeaderKeys : HandlerSetHeader(r, k, "text/plain")
        \/ HandlerGetTransaction(r)
        \/ HandlerReturn(r)
        \/ HandlerPanic(r)
        \/ \E e \in BOOLEAN : DeferRecover(r, e)
        \/ \E e \in BOOLEAN : DeferNotOk(r, e)
        \/ \E e \in BOOLEAN : DeferCommit(r, e)
        \/ \E e \in BOOLEAN : DeferCommitFailed(r, e)
        \/ DeferFinish(r)

\* The deferred function of request r: once the handler has returned or
\* panicked it runs to its end in the request's goroutine.
Cleanup(r) ==
    \/ \E e \in BOOLEAN : DeferRecover(r, e)
    \/ \E e \in BOOLEAN : DeferNotOk(r, e)
    \/ \E e \in BOOLEAN : DeferCommit(r, e)
    \/ \E e \in BOOLEAN : DeferCommitFailed(r, e)
    \/ DeferFinish(r)

SpecConc == InitConc /\ [][NextConc]_vars
\* One request whose deferred cleanup is not suspended forever.
SpecLive == Init /\ [][Next]_vars /\ \A r \in Reqs : WF_vars(Cleanup(r))
\* Requests served by the simple middlewares Auth, HTTPS and JWT.
SpecMw == InitMw /\ [][NextMw]_vars

====
